---- MODULE Spec2Model ----
(***************************************************************************)
(* A model of tlog's two interceptors: the Gin request middleware with its *)
(* JSON field masking (gin.go) and the GORM logger adapter with its SQL    *)
(* classification (gorm.go).                                               *)
(*                                                                         *)
(* Text is modelled as a sequence of one-character strings, so that        *)
(* prefixes, truncation, case folding and regular-expression scans are     *)
(* computed character by character as the Go code computes them.           *)
(***************************************************************************)
EXTENDS Integers, Sequences, FiniteSets, TLC

VARIABLES
    \* maskJSONFields applied to a parsed document (gin.go)
    data, patterns, masked, remasked, mpc,
    \* maskBody applied to a raw body text (gin.go)
    body, bodyPatterns, maskedBody, bpc,
    \* parseSQL applied to a statement text (gorm.go)
    sql, operation, table, qpc,
    \* GormLogger.Trace (gorm.go)
    logLevel, slowThreshold, ignoreRecordNotFound, elapsed, err, traceSQL,
    fcCalls, events, tpc,
    \* GinMiddleware handling one exchange (gin.go)
    cfg, req, ctx, stream, sink, clientOut, handlerCalls, handlerSaw, gpc,
    \* WithMaskPatterns applied to a configuration (gin.go)
    sources, maskPatterns, setupData, setupMasked, spc,
    \* exchanges in flight through one GinMiddleware instance (gin.go)
    xcfg, xreq, xctx, xsink

maskVars  == <<data, patterns, masked, remasked, mpc>>
bodyVars  == <<body, bodyPatterns, maskedBody, bpc>>
sqlVars   == <<sql, operation, table, qpc>>
traceVars == <<logLevel, slowThreshold, ignoreRecordNotFound, elapsed, err,
               traceSQL, fcCalls, events, tpc>>
ginVars   == <<cfg, req, ctx, stream, sink, clientOut, handlerCalls,
               handlerSaw, gpc>>
setupVars == <<sources, maskPatterns, setupData, setupMasked, spc>>
xVars     == <<xcfg, xreq, xctx, xsink>>
vars      == <<maskVars, bodyVars, sqlVars, traceVars, ginVars, setupVars, xVars>>

---------------------------------------------------------------------------
(* Characters and strings                                                  *)

LowerLetters == <<"a","b","c","d","e","f","g","h","i","j","k","l","m",
                  "n","o","p","q","r","s","t","u","v","w","x","y","z">>
UpperLetters == <<"A","B","C","D","E","F","G","H","I","J","K","L","M",
                  "N","O","P","Q","R","S","T","U","V","W","X","Y","Z">>
Digits       == <<"0","1","2","3","4","5","6","7","8","9">>

Range(q) == {q[i] : i \in 1..Len(q)}
IndexOf(q, c) == CHOOSE i \in 1..Len(q) : q[i] = c

\* unicode.ToUpper on one (ASCII) character
ToUpperChar(c) ==
    IF c \in Range(LowerLetters) THEN UpperLetters[IndexOf(LowerLetters, c)] ELSE c

\* strings.ToUpper
ToUpper(s) == [i \in 1..Len(s) |-> ToUpperChar(s[i])]

\* strings.HasPrefix
HasPrefix(s, p) == Len(s) >= Len(p) /\ SubSeq(s, 1, Len(p)) = p

\* unicode.IsSpace restricted to the characters of the model
IsSpace(c) == c \in {" ", "\n", "\t"}

\* the regular-expression class \w: [0-9A-Za-z_]
IsWord(c) == c \in Range(LowerLetters) \cup Range(UpperLetters) \cup Range(Digits) \cup {"_"}

RECURSIVE TrimLeft(_)
TrimLeft(s) == IF s # <<>> /\ IsSpace(Head(s)) THEN TrimLeft(Tail(s)) ELSE s

RECURSIVE TrimRight(_)
TrimRight(s) ==
    IF s # <<>> /\ IsSpace(s[Len(s)]) THEN TrimRight(SubSeq(s, 1, Len(s) - 1)) ELSE s

\* strings.TrimSpace
TrimSpace(s) == TrimRight(TrimLeft(s))

\* byte order of the characters that occur in object keys
ByteOrder == Digits \o UpperLetters \o <<"_">> \o LowerLetters
Ord(c) == IndexOf(ByteOrder, c)

RECURSIVE StrLess(_, _)
\* Go's < on strings: bytewise lexicographic
StrLess(a, b) ==
    IF a = <<>> THEN b # <<>>
    ELSE IF b = <<>> THEN FALSE
    ELSE IF Head(a) = Head(b) THEN StrLess(Tail(a), Tail(b))
    ELSE Ord(Head(a)) < Ord(Head(b))

---------------------------------------------------------------------------
(* encoding/json: documents as Unmarshal into `any` produces them, Marshal *)
(* and Unmarshal over the characters of the model                          *)

Null    == [t |-> "null"]
Bool(b) == [t |-> "bool", b |-> b]
Num(n)  == [t |-> "num", n |-> n]
Str(s)  == [t |-> "str", s |-> s]
Map(f)  == [t |-> "map", m |-> f]
Arr(q)  == [t |-> "seq", a |-> q]

RECURSIVE FormatNat(_)
\* strconv formatting of a non-negative integral float64
FormatNat(n) == IF n < 10 THEN <<Digits[n + 1]>> ELSE FormatNat(n \div 10) \o <<Digits[(n % 10) + 1]>>

RECURSIVE SortedKeys(_)
\* json.Marshal writes the keys of a map in sorted order
SortedKeys(D) ==
    IF D = {} THEN <<>>
    ELSE LET k == CHOOSE x \in D : \A y \in D \ {x} : StrLess(x, y)
         IN  <<k>> \o SortedKeys(D \ {k})

Quote(s) == <<"\"">> \o s \o <<"\"">>

RECURSIVE Marshal(_)
RECURSIVE MarshalMembers(_, _)
RECURSIVE MarshalElems(_)
\* json.Marshal
Marshal(d) ==
    CASE d.t = "null" -> <<"n","u","l","l">>
      [] d.t = "bool" -> IF d.b THEN <<"t","r","u","e">> ELSE <<"f","a","l","s","e">>
      [] d.t = "num"  -> FormatNat(d.n)
      [] d.t = "str"  -> Quote(d.s)
      [] d.t = "map"  -> <<"{">> \o MarshalMembers(d.m, SortedKeys(DOMAIN d.m)) \o <<"}">>
      [] d.t = "seq"  -> <<"[">> \o MarshalElems(d.a) \o <<"]">>

MarshalMembers(f, ks) ==
    IF ks = <<>> THEN <<>>
    ELSE Quote(Head(ks)) \o <<":">> \o Marshal(f[Head(ks)])
         \o (IF Len(ks) > 1 THEN <<",">> ELSE <<>>) \o MarshalMembers(f, Tail(ks))

MarshalElems(q) ==
    IF q = <<>> THEN <<>>
    ELSE Marshal(Head(q)) \o (IF Len(q) > 1 THEN <<",">> ELSE <<>>) \o MarshalElems(Tail(q))

\* a parse result: ok, the value, and the index of the first unread character
ParseFail == [ok |-> FALSE, v |-> Null, i |-> 0]
ParseOk(v, i) == [ok |-> TRUE, v |-> v, i |-> i]

RECURSIVE SkipSpace(_, _)
SkipSpace(s, i) == IF i <= Len(s) /\ IsSpace(s[i]) THEN SkipSpace(s, i + 1) ELSE i

RECURSIVE DigitsEnd(_, _)
\* index after the run of digits that starts at i
DigitsEnd(s, i) == IF i <= Len(s) /\ s[i] \in Range(Digits) THEN DigitsEnd(s, i + 1) ELSE i

RECURSIVE ParseNat(_)
ParseNat(ds) ==
    IF ds = <<>> THEN 0
    ELSE 10 * ParseNat(SubSeq(ds, 1, Len(ds) - 1)) + (IndexOf(Digits, ds[Len(ds)]) - 1)

\* a literal (null, true, false) at i
ParseLiteral(s, i, lit, v) ==
    IF i + Len(lit) - 1 <= Len(s) /\ SubSeq(s, i, i + Len(lit) - 1) = lit
    THEN ParseOk(v, i + Len(lit)) ELSE ParseFail

\* a number at i: digits, no leading zero; the characters of the model hold no
\* sign, fraction or exponent
ParseNumber(s, i) ==
    LET j == DigitsEnd(s, i)
    IN  IF j = i \/ (s[i] = "0" /\ j > i + 1) THEN ParseFail
        ELSE ParseOk(Num(ParseNat(SubSeq(s, i, j - 1))), j)

\* a string at i (s[i] is the opening quote): up to the next quote; the
\* characters of the model hold no backslash and no control character but
\* line feed and tab, which a JSON string may not contain
ParseString(s, i) ==
    IF \E j \in (i + 1)..Len(s) : s[j] = "\""
    THEN LET j == CHOOSE j \in (i + 1)..Len(s) :
                      s[j] = "\"" /\ \A k \in (i + 1)..(j - 1) : s[k] # "\""
             c == SubSeq(s, i + 1, j - 1)
         IN  IF \E k \in 1..Len(c) : c[k] \in {"\n", "\t"} THEN ParseFail
             ELSE ParseOk(Str(c), j + 1)
    ELSE ParseFail

RECURSIVE ParseValue(_, _)
RECURSIVE ParseMembers(_, _, _)
RECURSIVE ParseElems(_, _, _)
\* the value that starts at i, after white space
ParseValue(s, i0) ==
    LET i == SkipSpace(s, i0)
    IN  IF i > Len(s) THEN ParseFail
        ELSE CASE s[i] = "{" ->
                    LET j == SkipSpace(s, i + 1)
                    IN  IF j <= Len(s) /\ s[j] = "}" THEN ParseOk(Map(<<>>), j + 1)
                        ELSE ParseMembers(s, j, <<>>)
               [] s[i] = "[" ->
                    LET j == SkipSpace(s, i + 1)
                    IN  IF j <= Len(s) /\ s[j] = "]" THEN ParseOk(Arr(<<>>), j + 1)
                        ELSE ParseElems(s, j, <<>>)
               [] s[i] = "\"" -> ParseString(s, i)
               [] s[i] = "n" -> ParseLiteral(s, i, <<"n","u","l","l">>, Null)
               [] s[i] = "t" -> ParseLiteral(s, i, <<"t","r","u","e">>, Bool(TRUE))
               [] s[i] = "f" -> ParseLiteral(s, i, <<"f","a","l","s","e">>, Bool(FALSE))
               [] s[i] \in Range(Digits) -> ParseNumber(s, i)
               [] OTHER -> ParseFail

\* the members of an object from i on (at least one), f the members read so
\* far; a repeated key keeps its last value
ParseMembers(s, i0, f) ==
    LET i == SkipSpace(s, i0)
    IN  IF i > Len(s) \/ s[i] # "\"" THEN ParseFail
        ELSE LET k == ParseString(s, i)
                 c == SkipSpace(s, k.i)
             IN  IF ~k.ok \/ c > Len(s) \/ s[c] # ":" THEN ParseFail
                 ELSE LET v == ParseValue(s, c + 1)
                          e == SkipSpace(s, v.i)
                          g == [x \in DOMAIN f \cup {k.v.s} |->
                                    IF x = k.v.s THEN v.v ELSE f[x]]
                      IN  IF ~v.ok \/ e > Len(s) THEN ParseFail
                          ELSE IF s[e] = "}" THEN ParseOk(Map(g), e + 1)
                          ELSE IF s[e] = "," THEN ParseMembers(s, e + 1, g)
                          ELSE ParseFail

\* the elements of an array from i on (at least one), q the elements read so far
ParseElems(s, i0, q) ==
    LET v == ParseValue(s, i0)
        e == SkipSpace(s, v.i)
    IN  IF ~v.ok \/ e > Len(s) THEN ParseFail
        ELSE IF s[e] = "]" THEN ParseOk(Arr(Append(q, v.v)), e + 1)
        ELSE IF s[e] = "," THEN ParseElems(s, e + 1, Append(q, v.v))
        ELSE ParseFail

\* json.Unmarshal into `any`: one value, white space around it, nothing after
Unmarshal(s) ==
    LET v == ParseValue(s, 1)
    IN  IF v.ok /\ SkipSpace(s, v.i) = Len(s) + 1 THEN v ELSE ParseFail

---------------------------------------------------------------------------
(* gin.go: masking of sensitive fields                                     *)

\* DefaultMaskValue = "******"
DefaultMaskValue == Str(<<"*","*","*","*","*","*">>)

\* A compiled *regexp.Regexp of the model: the literal lit, or (?i)lit when
\* fold is set.  MatchString searches the whole field name for it.
FoldEq(fold, a, b) == IF fold THEN ToUpperChar(a) = ToUpperChar(b) ELSE a = b

MatchString(p, s) ==
    \E k \in 0..(Len(s) - Len(p.lit)) :
        \A j \in 1..Len(p.lit) : FoldEq(p.fold, s[k + j], p.lit[j])

\* the slip of testing the first pattern only
shouldMaskFirstOnly(fieldName, ps) == Len(ps) > 0 /\ MatchString(ps[1], fieldName)

\* shouldMask: the field name matches any of the patterns
shouldMask(fieldName, ps) == \E i \in 1..Len(ps) : MatchString(ps[i], fieldName)

\* the slip `result = append(result, item)` on a slice made with len(v):
\* the result holds len(v) nil entries before the transformed elements
RECURSIVE maskJSONFieldsAppend(_, _)
maskJSONFieldsAppend(d, ps) ==
    IF Len(ps) = 0 THEN d
    ELSE CASE d.t = "map" ->
                Map([k \in DOMAIN d.m |->
                        IF shouldMask(k, ps) THEN DefaultMaskValue
                        ELSE maskJSONFieldsAppend(d.m[k], ps)])
           [] d.t = "seq" ->
                Arr([i \in 1..Len(d.a) |-> Null]
                    \o [i \in 1..Len(d.a) |-> maskJSONFieldsAppend(d.a[i], ps)])
           [] OTHER -> d

\* the slip of leaving a matched key out of the result instead of masking it
RECURSIVE maskJSONFieldsDrop(_, _)
maskJSONFieldsDrop(d, ps) ==
    IF Len(ps) = 0 THEN d
    ELSE CASE d.t = "map" ->
                Map([k \in {x \in DOMAIN d.m : ~shouldMask(x, ps)} |->
                        maskJSONFieldsDrop(d.m[k], ps)])
           [] d.t = "seq" ->
                Arr([i \in 1..Len(d.a) |-> maskJSONFieldsDrop(d.a[i], ps)])
           [] OTHER -> d

RECURSIVE maskJSONFields(_, _)
\* maskJSONFields
maskJSONFields(d, ps) ==
    IF Len(ps) = 0 THEN d
    ELSE CASE d.t = "map" ->
                Map([k \in DOMAIN d.m |->
                        IF shouldMask(k, ps) THEN DefaultMaskValue
                        ELSE maskJSONFields(d.m[k], ps)])
           [] d.t = "seq" ->
                Arr([i \in 1..Len(d.a) |-> maskJSONFields(d.a[i], ps)])
           [] OTHER -> d

\* the slip of marshalling the zero value when Unmarshal fails
maskBodyNoParseCheck(b, ps) ==
    IF Len(ps) = 0 \/ b = <<>> THEN b
    ELSE LET r == Unmarshal(b) IN Marshal(maskJSONFields(r.v, ps))

\* maskBody.  json.Marshal cannot fail on a value Unmarshal produced, so the
\* second early return of the code is never taken.
maskBody(b, ps) ==
    IF Len(ps) = 0 \/ b = <<>> THEN b
    ELSE LET r == Unmarshal(b)
         IN  IF ~r.ok THEN b ELSE Marshal(maskJSONFields(r.v, ps))

---------------------------------------------------------------------------
(* Inputs of the masking operations                                        *)

MaxWidth    == 2   \* entries of a map or a sequence of scalars
MaxDepth    == 1   \* levels of nesting around such a map or sequence
MaxPatterns == 2   \* patterns in a rule set

KeyPw    == <<"p","w">>
KeyPwUp  == <<"P","W">>
KeyId    == <<"i","d">>
Keys     == {KeyPw, KeyPwUp, KeyId}

PatPw     == [fold |-> FALSE, lit |-> <<"p","w">>]   \* `pw`
PatPwFold == [fold |-> TRUE,  lit |-> <<"p","w">>]   \* `(?i)pw`
PatD      == [fold |-> FALSE, lit |-> <<"d">>]       \* `d`
Patterns  == {PatPw, PatPwFold, PatD}

\* the rule sets: lists of distinct patterns
RuleSets ==
    UNION {{q \in [1..n -> Patterns] : \A i, j \in 1..n : i # j => q[i] # q[j]}
             : n \in 0..MaxPatterns}

Leaves == {Null, Bool(TRUE), Num(1), Str(<<"s">>)}

MapsOver(V, n) ==
    {Map(f) : f \in UNION {[D -> V] : D \in {X \in SUBSET Keys : Cardinality(X) <= n}}}

SeqsOver(V, n) == {Arr(q) : q \in UNION {[1..k -> V] : k \in 0..n}}

Flat == Leaves \cup MapsOver(Leaves, MaxWidth) \cup SeqsOver(Leaves, MaxWidth)

Nest(S) == {Map([k \in {key} |-> v]) : key \in Keys, v \in S} \cup {Arr(<<v>>) : v \in S}

RECURSIVE DocsTo(_)
DocsTo(depth) == IF depth = 0 THEN Flat ELSE LET P == DocsTo(depth - 1) IN P \cup Nest(P)

Docs == DocsTo(MaxDepth)

NoDoc == [t |-> "none"]

\* raw body texts: the serialisation of a document, every prefix of the
\* serialisation of a flat one (a cut body), white space around it, and text
\* that is no JSON at all
Prefixes(s) == {SubSeq(s, 1, n) : n \in 0..Len(s)}
Bodies ==
    {Marshal(d) : d \in Docs}
    \cup UNION {Prefixes(Marshal(d)) : d \in Flat}
    \cup {<<" ">> \o Marshal(d) \o <<"\n">> : d \in Flat}
    \cup {<<"p","w","=","1">>, <<"{","p","w",":","1","}">>, <<"0","1">>}

NoText == <<"<none>">>

---------------------------------------------------------------------------
(* maskJSONFields on a parsed document, applied once and again             *)

MaskInit ==
    /\ data \in Docs
    /\ patterns \in RuleSets
    /\ masked = NoDoc
    /\ remasked = NoDoc
    /\ mpc = "start"

MaskIdle ==
    /\ data = NoDoc
    /\ patterns = <<>>
    /\ masked = NoDoc
    /\ remasked = NoDoc
    /\ mpc = "idle"

MaskOnce ==
    /\ mpc = "start"
    /\ masked' = maskJSONFields(data, patterns)
    /\ mpc' = "masked"
    /\ UNCHANGED <<data, patterns, remasked>>

MaskAgain ==
    /\ mpc = "masked"
    /\ remasked' = maskJSONFields(masked, patterns)
    /\ mpc' = "remasked"
    /\ UNCHANGED <<data, patterns, masked>>

---------------------------------------------------------------------------
(* maskBody on a raw body text                                             *)

BodyInit ==
    /\ body \in Bodies
    /\ bodyPatterns \in RuleSets
    /\ maskedBody = NoText
    /\ bpc = "start"

BodyIdle ==
    /\ body = <<>>
    /\ bodyPatterns = <<>>
    /\ maskedBody = NoText
    /\ bpc = "idle"

MaskBody ==
    /\ bpc = "start"
    /\ maskedBody' = maskBody(body, bodyPatterns)
    /\ bpc' = "done"
    /\ UNCHANGED <<body, bodyPatterns>>

---------------------------------------------------------------------------
(* gorm.go: SQL classification                                             *)

KwSelect == <<"S","E","L","E","C","T">>
KwInsert == <<"I","N","S","E","R","T">>
KwUpdate == <<"U","P","D","A","T","E">>
KwDelete == <<"D","E","L","E","T","E">>
KwFrom   == <<"F","R","O","M">>
KwInto   == <<"I","N","T","O">>
OpOther  == <<"O","T","H","E","R">>

\* index after the run of white space that starts at i
RECURSIVE SpaceEnd(_, _)
SpaceEnd(s, i) == IF i <= Len(s) /\ IsSpace(s[i]) THEN SpaceEnd(s, i + 1) ELSE i

\* index after the run of word characters that starts at i
RECURSIVE WordEnd(_, _)
WordEnd(s, i) == IF i <= Len(s) /\ IsWord(s[i]) THEN WordEnd(s, i + 1) ELSE i

\* the backtick character, written as a name
Backtick == "BACKTICK"

IsQuote(c) == c \in {"\"", Backtick}

\* the slip of keeping the opening quote inside the capture group
SubmatchAtKeepQuote(s, kw, i) ==
    LET j == i + Len(kw)
    IN  IF /\ j - 1 <= Len(s)
           /\ (i = 1 \/ ~IsWord(s[i - 1]))
           /\ ToUpper(SubSeq(s, i, j - 1)) = kw
        THEN LET a == SpaceEnd(s, j)
                 b == IF a <= Len(s) /\ IsQuote(s[a]) THEN a + 1 ELSE a
                 c == WordEnd(s, b)
             IN  IF a > j /\ c > b THEN SubSeq(s, a, c - 1) ELSE <<>>
        ELSE <<>>

\* The pattern of extractTableName tried at index i of s: a word boundary, the
\* keyword kw in any letter case, a run of white space, an optional double
\* quote or backtick, and a captured run of word characters.  The value is the
\* text of the capture group, or the empty text when the pattern does not
\* match at i.  White space, quotes and word characters are disjoint classes,
\* so the greedy match is the only one.
SubmatchAt(s, kw, i) ==
    LET j == i + Len(kw)
    IN  IF /\ j - 1 <= Len(s)
           /\ (i = 1 \/ ~IsWord(s[i - 1]))
           /\ ToUpper(SubSeq(s, i, j - 1)) = kw
        THEN LET a == SpaceEnd(s, j)
                 b == IF a <= Len(s) /\ IsQuote(s[a]) THEN a + 1 ELSE a
                 c == WordEnd(s, b)
             IN  IF a > j /\ c > b THEN SubSeq(s, b, c - 1) ELSE <<>>
        ELSE <<>>

RECURSIVE FindFrom(_, _, _)
\* pattern.FindStringSubmatch(sql)[1]: the leftmost match, scanning from i
FindFrom(s, kw, i) ==
    IF i > Len(s) THEN <<>>
    ELSE LET m == SubmatchAt(s, kw, i)
         IN  IF m # <<>> THEN m ELSE FindFrom(s, kw, i + 1)

FindStringSubmatch(s, kw, i) == FindFrom(s, kw, i)

\* the slip of a switch without the default case: the FROM pattern is tried
\* for a statement of any other operation
extractTableNameNoDefault(s, op) ==
    CASE op = KwSelect -> FindStringSubmatch(s, KwFrom, 1)
      [] op = KwInsert -> FindStringSubmatch(s, KwInto, 1)
      [] op = KwUpdate -> FindStringSubmatch(s, KwUpdate, 1)
      [] OTHER -> FindStringSubmatch(s, KwFrom, 1)

\* extractTableName
extractTableName(s, op) ==
    CASE op = KwSelect -> FindStringSubmatch(s, KwFrom, 1)
      [] op = KwInsert -> FindStringSubmatch(s, KwInto, 1)
      [] op = KwUpdate -> FindStringSubmatch(s, KwUpdate, 1)
      [] op = KwDelete -> FindStringSubmatch(s, KwFrom, 1)
      [] OTHER -> <<>>

\* the slip of comparing the statement as written with the upper-case keywords
operationOfExact(t) ==
    CASE HasPrefix(t, KwSelect) -> KwSelect
      [] HasPrefix(t, KwInsert) -> KwInsert
      [] HasPrefix(t, KwUpdate) -> KwUpdate
      [] HasPrefix(t, KwDelete) -> KwDelete
      [] OTHER -> OpOther

\* the operation of a statement text that has been trimmed
operationOf(t) ==
    LET upperSQL == ToUpper(t)
    IN  CASE HasPrefix(upperSQL, KwSelect) -> KwSelect
          [] HasPrefix(upperSQL, KwInsert) -> KwInsert
          [] HasPrefix(upperSQL, KwUpdate) -> KwUpdate
          [] HasPrefix(upperSQL, KwDelete) -> KwDelete
          [] OTHER -> OpOther

\* parseSQL: <<operation, table>>
parseSQL(s) ==
    LET t  == TrimSpace(s)
        op == operationOf(t)
    IN  <<op, extractTableName(t, op)>>

---------------------------------------------------------------------------
(* Inputs of parseSQL                                                      *)

MaxPieces == 3   \* pieces of text after the leading word of a statement

\* the statements the specification quotes
StmtSelectUsers  == <<"S","E","L","E","C","T"," ","*"," ","F","R","O","M"," ","u","s","e","r","s"," ","W","H","E","R","E"," ","i","d","=","1">>
StmtInsertOrders == <<"I","N","S","E","R","T"," ","I","N","T","O"," ","\"","o","r","d","e","r","s","\""," ","(","a",")"," ","V","A","L","U","E","S"," ","(","1",")">>
StmtGarbage      == <<"g","a","r","b","a","g","e",";",";",";">>
\* a statement whose FROM is followed by a parenthesised subquery
StmtSubquery     == <<"S","E","L","E","C","T"," ","*"," ","F","R","O","M"," ","(","S","E","L","E","C","T"," ","i","d"," ","F","R","O","M"," ","u","s","e","r","s",")"," ","u">>

\* the leading word of a generated statement, in several letter cases, one
\* with white space before it and one that is no operation keyword
LeadPieces ==
    { <<"S","E","L","E","C","T">>, <<" ","s","e","l","e","c","t">>, <<"I","n","s","e","r","t">>, <<"U","P","D","A","T","E">>, <<"d","e","l","e","t","e">>, <<"W","I","T","H">> }

\* what may follow: keywords with and without white space around them, white
\* space, an identifier, the two wrapping characters and a parenthesis
RestPieces ==
    { <<" ","F","R","O","M"," ">>, <<"f","r","o","m">>, <<" ","i","n","t","o"," ">>, <<" ">>, <<"t","1">>, <<"\"">>, <<Backtick>>, <<"(">> }

RECURSIVE Concat(_)
Concat(q) == IF q = <<>> THEN <<>> ELSE Head(q) \o Concat(Tail(q))

Statements ==
    {StmtSelectUsers, StmtInsertOrders, StmtGarbage, StmtSubquery}
    \cup {l \o Concat(r) : l \in LeadPieces,
                           r \in UNION {[1..n -> RestPieces] : n \in 0..MaxPieces}}

---------------------------------------------------------------------------
(* parseSQL on a statement text                                            *)

SqlInit ==
    /\ sql \in Statements
    /\ operation = NoText
    /\ table = NoText
    /\ qpc = "start"

SqlIdle ==
    /\ sql = <<>>
    /\ operation = NoText
    /\ table = NoText
    /\ qpc = "idle"

ParseSQL ==
    /\ qpc = "start"
    /\ LET r == parseSQL(sql)
       IN  operation' = r[1] /\ table' = r[2]
    /\ qpc' = "done"
    /\ UNCHANGED sql

---------------------------------------------------------------------------
(* gorm.go: GormLogger.Trace                                               *)

\* gormlogger.LogLevel
Silent == 1
Error  == 2
Warn   == 3
Info   == 4
LogLevels == {Silent, Error, Warn, Info}

MaxElapsed == 3   \* durations are 0..MaxElapsed units

\* the execution errors: none, gorm.ErrRecordNotFound, an error that wraps
\* it, and an unrelated error
Errors == {"nil", "ErrRecordNotFound", "wrapped ErrRecordNotFound", "duplicate key"}

\* errors.Is(e, gorm.ErrRecordNotFound)
IsRecordNotFound(e) == e \in {"ErrRecordNotFound", "wrapped ErrRecordNotFound"}

\* the fields of an emitted event the model keeps
Event(sev, stmt, slow, e) ==
    LET r == parseSQL(stmt)
    IN  [severity |-> sev, operation |-> r[1], table |-> r[2],
         slow_query |-> slow, error |-> e]

\* the slip of writing the three cases as consecutive if statements
traceEventsFallThrough(level, threshold, ignore, el, e, stmt) ==
    IF level <= Silent THEN <<>>
    ELSE LET isSlowQuery == el > threshold
         IN  (IF e # "nil" /\ level >= Error /\ ~(ignore /\ IsRecordNotFound(e))
              THEN <<Event("error", stmt, isSlowQuery, e)>> ELSE <<>>)
             \o (IF isSlowQuery /\ level >= Warn
                 THEN <<Event("warn", stmt, isSlowQuery, "nil")>> ELSE <<>>)
             \o (IF level >= Info
                 THEN <<Event("info", stmt, isSlowQuery, "nil")>> ELSE <<>>)

\* the slip of leaving the switch instead of the function on an ignorable
\* error written as a separate case: the call goes on to the later cases
traceEventsDowngrade(level, threshold, ignore, el, e, stmt) ==
    IF level <= Silent THEN <<>>
    ELSE LET isSlowQuery == el > threshold
         IN  CASE e # "nil" /\ level >= Error /\ ~(ignore /\ IsRecordNotFound(e)) ->
                    <<Event("error", stmt, isSlowQuery, e)>>
               [] isSlowQuery /\ level >= Warn ->
                    <<Event("warn", stmt, isSlowQuery, "nil")>>
               [] level >= Info ->
                    <<Event("info", stmt, isSlowQuery, "nil")>>
               [] OTHER -> <<>>

\* the slip of comparing with >= instead of >
traceEventsNotStrict(level, threshold, ignore, el, e, stmt) ==
    IF level <= Silent THEN <<>>
    ELSE LET isSlowQuery == el >= threshold
         IN  CASE e # "nil" /\ level >= Error ->
                    IF ignore /\ IsRecordNotFound(e) THEN <<>>
                    ELSE <<Event("error", stmt, isSlowQuery, e)>>
               [] isSlowQuery /\ level >= Warn ->
                    <<Event("warn", stmt, isSlowQuery, "nil")>>
               [] level >= Info ->
                    <<Event("info", stmt, isSlowQuery, "nil")>>
               [] OTHER -> <<>>

\* the events one call of Trace emits: the switch of Trace, its cases tried in
\* the order written
traceEvents(level, threshold, ignore, el, e, stmt) ==
    IF level <= Silent THEN <<>>
    ELSE LET isSlowQuery == el > threshold
         IN  CASE e # "nil" /\ level >= Error ->
                    IF ignore /\ IsRecordNotFound(e) THEN <<>>
                    ELSE <<Event("error", stmt, isSlowQuery, e)>>
               [] isSlowQuery /\ level >= Warn ->
                    <<Event("warn", stmt, isSlowQuery, "nil")>>
               [] level >= Info ->
                    <<Event("info", stmt, isSlowQuery, "nil")>>
               [] OTHER -> <<>>

\* the number of times one call of Trace invokes the accessor fc
fcInvocations(level) == IF level <= Silent THEN 0 ELSE 1

TraceStatements == {StmtSelectUsers, StmtInsertOrders, StmtGarbage}

TraceInit ==
    /\ logLevel \in LogLevels
    /\ slowThreshold \in 0..MaxElapsed
    /\ ignoreRecordNotFound \in BOOLEAN
    /\ elapsed \in 0..MaxElapsed
    /\ err \in Errors
    /\ traceSQL \in TraceStatements
    /\ fcCalls = 0
    /\ events = <<>>
    /\ tpc = "start"

TraceIdle ==
    /\ logLevel = Silent
    /\ slowThreshold = 0
    /\ ignoreRecordNotFound = TRUE
    /\ elapsed = 0
    /\ err = "nil"
    /\ traceSQL = <<>>
    /\ fcCalls = 0
    /\ events = <<>>
    /\ tpc = "idle"

\* GormLogger.Trace, called once by the data-access layer
Trace ==
    /\ tpc = "start"
    /\ fcCalls' = fcCalls + fcInvocations(logLevel)
    /\ events' = events \o traceEvents(logLevel, slowThreshold, ignoreRecordNotFound,
                                       elapsed, err, traceSQL)
    /\ tpc' = "done"
    /\ UNCHANGED <<logLevel, slowThreshold, ignoreRecordNotFound, elapsed, err, traceSQL>>

---------------------------------------------------------------------------
(* gin.go: GinMiddleware handling one exchange                             *)

MaxWrites == 2   \* Write calls the downstream handler makes

TruncationMarker == <<".",".",".","[","t","r","u","n","c","a","t","e","d","]">>

\* the request body stream c.Request.Body: nil, or the unread bytes and the
\* number of bytes after which reading fails (-1: reading never fails)
NilBody == [nil |-> TRUE, unread |-> <<>>, failAfter |-> -1]
BodyStream(b, f) == [nil |-> FALSE, unread |-> b, failAfter |-> f]

\* io.ReadAll(st): the bytes read, whether reading failed, and the stream left
ReadAll(st) ==
    IF st.failAfter < 0 \/ st.failAfter > Len(st.unread)
    THEN [bytes |-> st.unread, failed |-> FALSE,
          left |-> [st EXCEPT !.unread = <<>>]]
    ELSE [bytes |-> SubSeq(st.unread, 1, st.failAfter), failed |-> TRUE,
          left |-> [st EXCEPT !.unread = SubSeq(st.unread, st.failAfter + 1, Len(st.unread)),
                              !.failAfter = 0]]

\* the slip of storing false for every configured path
SkippedNever(c, path) == FALSE

\* skipPathMap[path]: an exact match with a configured skip path
Skipped(c, path) == path \in c.SkipPaths

\* the slip of writing an event ahead of those already written
EmitAhead(log, e) == <<e>> \o log

\* L().Info, L().Warn, L().Error: the event is written after the earlier ones
Emit(log, e) == Append(log, e)

\* the slip of reading the body of a GET request too
capturesBodyAnyMethod(c, method, st) == c.LogRequestBody /\ ~st.nil

\* the request body is read for capture
capturesBody(c, method, st) == c.LogRequestBody /\ method # "GET" /\ ~st.nil

\* the slip of a deferred function that logs the completion while unwinding
UnwindDeferred(log) == Emit(log, [msg |-> "Request completed", severity |-> "error"])

\* the log after a panic of the handler has passed through the middleware,
\* which defers and recovers nothing
Unwind(log) == log

\* the slip of generating an id whatever the inbound header holds
resolveRequestIDAlwaysFresh(inbound, fresh) == fresh

\* requestID: the inbound header value, or a generated one when it is empty
resolveRequestID(inbound, fresh) == IF inbound = "" THEN fresh ELSE inbound

\* the slip of leaving the drained stream in place
NopCloserDrained(bodyBytes) == BodyStream(<<>>, -1)

\* io.NopCloser(bytes.NewBuffer(bodyBytes)): a stream that yields bodyBytes
NopCloser(bodyBytes) == BodyStream(bodyBytes, -1)

\* the slip of attaching the bodies whatever the status
IncludeBodiesAlways(statusCode) == TRUE

\* the bodies are attached for error responses only
IncludeBodies(statusCode) == statusCode >= 400

\* b[:n] on a text of Len(b) > n panics when n is negative
SliceFails(b, n) == n < 0

\* the slip of cutting without appending the marker
SnapshotNoMarker(b, max) ==
    IF Len(b) > max THEN SubSeq(b, 1, max) ELSE b

\* the snapshot of a non-empty captured body under the configured limit
Snapshot(b, max) ==
    IF Len(b) > max THEN SubSeq(b, 1, max) \o TruncationMarker ELSE b

\* the slip of a strict comparison with 500
SeverityStrict(statusCode) ==
    IF statusCode > 500 THEN "error" ELSE IF statusCode >= 400 THEN "warn" ELSE "info"

\* the severity of the completed event
Severity(statusCode) ==
    IF statusCode >= 500 THEN "error" ELSE IF statusCode >= 400 THEN "warn" ELSE "info"

NoID == "<unset>"

Paths    == {"/health", "/health/live", "/api/users"}
Methods  == {"GET", "HEAD", "POST"}
FreshIDs == {"uuid-1", "uuid-2"}
Statuses == {200, 399, 400, 499, 500}

BodyObject == <<"{","\"","p","w","\"",":","1","}">>
ReqBodies  == {BodyObject, <<>>}
Chunks     == {<<"{","\"","P","W","\"",":">>, <<"\"","x","\"","}">>}

Configs ==
    [RequestIDHeader : {"X-Request-ID"},
     MaxBodyLogSize  : {-1, 0, 4, 9, 4096},
     LogRequestBody  : BOOLEAN,
     LogResponseBody : BOOLEAN,
     SkipPaths       : {{}, {"/health"}},
     MaskPatterns    : {<<>>, <<PatPwFold>>}]

Requests ==
    [path : Paths, method : Methods, idHeader : {"", "req-1"},
     stream : {NilBody} \cup {BodyStream(b, -1) : b \in ReqBodies}
              \cup {BodyStream(BodyObject, 3)}]

\* the exchange-scoped state: gin's keys and response header, the response
\* writer, and the locals of the middleware closure
NewContext ==
    [request_id |-> NoID, header |-> NoID, wrapped |-> FALSE, captured |-> <<>>,
     status |-> 200, writes |-> 0, chunks |-> <<>>, skipped |-> FALSE, bodyReads |-> 0,
     requestID |-> NoID, requestBody |-> <<>>]

GinInit ==
    /\ cfg \in Configs
    /\ req \in Requests
    /\ ctx = NewContext
    /\ stream = req.stream
    /\ sink = <<>>
    /\ clientOut = <<>>
    /\ handlerCalls = 0
    /\ handlerSaw = NoText
    /\ gpc = "start"

GinIdle ==
    /\ cfg = [RequestIDHeader |-> "X-Request-ID", MaxBodyLogSize |-> 4096,
              LogRequestBody |-> TRUE, LogResponseBody |-> TRUE, SkipPaths |-> {},
              MaskPatterns |-> <<>>]
    /\ req = [path |-> "", method |-> "GET", idHeader |-> "", stream |-> NilBody]
    /\ ctx = NewContext
    /\ stream = NilBody
    /\ sink = <<>>
    /\ clientOut = <<>>
    /\ handlerCalls = 0
    /\ handlerSaw = NoText
    /\ gpc = "idle"

\* the skip branch of the middleware: c.Next() and nothing else
EnterSkipped ==
    /\ gpc = "start"
    /\ Skipped(cfg, req.path)
    /\ ctx' = [ctx EXCEPT !.skipped = TRUE]
    /\ handlerCalls' = handlerCalls + 1
    /\ gpc' = "handler"
    /\ UNCHANGED <<cfg, req, stream, sink, clientOut, handlerSaw>>

\* the middleware up to c.Next() for a path that is not skipped: the request
\* id, the capture of the request body, the received event, the wrapped writer
Enter ==
    /\ gpc = "start"
    /\ ~Skipped(cfg, req.path)
    /\ \E fresh \in FreshIDs :
         LET requestID == resolveRequestID(req.idHeader, fresh)
             capture   == capturesBody(cfg, req.method, stream)
             rd        == ReadAll(stream)
             restored  == NopCloser(rd.bytes)
             cut       == capture /\ ~rd.failed /\ Len(rd.bytes) > 0
                          /\ Len(rd.bytes) > cfg.MaxBodyLogSize
             panics    == cut /\ SliceFails(rd.bytes, cfg.MaxBodyLogSize)
             requestBody ==
                 IF capture /\ ~rd.failed /\ Len(rd.bytes) > 0
                 THEN Snapshot(rd.bytes, cfg.MaxBodyLogSize) ELSE <<>>
             c1 == [ctx EXCEPT !.request_id = requestID, !.header = requestID,
                               !.requestID = requestID,
                               !.bodyReads = IF capture THEN 1 ELSE 0]
         IN  /\ stream' = IF ~capture THEN stream
                          ELSE IF rd.failed THEN rd.left ELSE restored
             /\ IF panics
                THEN /\ ctx' = c1
                     /\ gpc' = "panicked"
                     /\ UNCHANGED <<sink, handlerCalls>>
                ELSE /\ ctx' = [c1 EXCEPT !.requestBody = requestBody, !.wrapped = TRUE]
                     /\ sink' = Emit(sink, [msg |-> "Request received", severity |-> "info",
                                            request_id |-> requestID, method |-> req.method,
                                            path |-> req.path])
                     /\ handlerCalls' = handlerCalls + 1
                     /\ gpc' = "handler"
    /\ UNCHANGED <<cfg, req, clientOut, handlerSaw>>

\* the downstream handler reads the request body
HandlerReadBody ==
    /\ gpc = "handler"
    /\ handlerSaw = NoText
    /\ ~stream.nil
    /\ handlerSaw' = ReadAll(stream).bytes
    /\ stream' = ReadAll(stream).left
    /\ UNCHANGED <<cfg, req, ctx, sink, clientOut, handlerCalls, gpc>>

\* the slip of buffering without forwarding to the embedded writer
WriteBufferOnly(c, out, b) ==
    [captured |-> IF c.wrapped THEN c.captured \o b ELSE c.captured,
     out      |-> IF c.wrapped THEN out ELSE out \o b]

\* responseWriter.Write: the capture buffer and the bytes sent to the client
\* after writing b through c.Writer
Write(c, out, b) ==
    [captured |-> IF c.wrapped THEN c.captured \o b ELSE c.captured,
     out      |-> out \o b]

\* the downstream handler writes a chunk of the response
HandlerWrite ==
    /\ gpc = "handler"
    /\ ctx.writes < MaxWrites
    /\ \E b \in Chunks :
         /\ ctx' = [ctx EXCEPT !.captured = Write(ctx, clientOut, b).captured,
                               !.writes = @ + 1, !.chunks = Append(@, b)]
         /\ clientOut' = Write(ctx, clientOut, b).out
    /\ UNCHANGED <<cfg, req, stream, sink, handlerCalls, handlerSaw, gpc>>

\* the downstream handler returns with a final status; on a skipped path the
\* middleware returns with it
HandlerReturn ==
    /\ gpc = "handler"
    /\ \E st \in Statuses : ctx' = [ctx EXCEPT !.status = st]
    /\ gpc' = IF ctx.skipped THEN "done" ELSE "returned"
    /\ UNCHANGED <<cfg, req, stream, sink, clientOut, handlerCalls, handlerSaw>>

\* the downstream handler panics: c.Next() does not return and the stack
\* unwinds through the middleware
HandlerPanic ==
    /\ gpc = "handler"
    /\ sink' = Unwind(sink)
    /\ gpc' = "unwound"
    /\ UNCHANGED <<cfg, req, ctx, stream, clientOut, handlerCalls, handlerSaw>>

\* the middleware after c.Next(): the completed event
Complete ==
    /\ gpc = "returned"
    /\ LET statusCode == ctx.status
           withResp   == IncludeBodies(statusCode) /\ cfg.LogResponseBody
           withReq    == IncludeBodies(statusCode) /\ cfg.LogRequestBody
                         /\ ctx.requestBody # <<>>
           cutResp    == withResp /\ Len(ctx.captured) > cfg.MaxBodyLogSize
           panics     == cutResp /\ SliceFails(ctx.captured, cfg.MaxBodyLogSize)
           base       == [msg |-> "Request completed", severity |-> Severity(statusCode),
                          request_id |-> ctx.requestID, method |-> req.method,
                          path |-> req.path, status_code |-> statusCode]
           f1 == IF withResp
                 THEN [response_body |->
                          maskBody(Snapshot(ctx.captured, cfg.MaxBodyLogSize), cfg.MaskPatterns)]
                 ELSE <<>>
           f2 == IF withReq
                 THEN [request_body |-> maskBody(ctx.requestBody, cfg.MaskPatterns)]
                 ELSE <<>>
       IN  IF panics
           THEN /\ gpc' = "panicked"
                /\ UNCHANGED sink
           ELSE /\ sink' = Emit(sink, base @@ f1 @@ f2)
                /\ gpc' = "done"
    /\ UNCHANGED <<cfg, req, ctx, stream, clientOut, handlerCalls, handlerSaw>>

---------------------------------------------------------------------------
(* gin.go: WithMaskPatterns applied to a configuration                     *)

MaxSources == 3   \* pattern texts passed to WithMaskPatterns

FlagFold == <<"(","?","i",")">>

\* pattern texts: a literal, the same under the case-folding flag, another
\* literal, a group that is never closed and a class that is never closed
SrcPw        == <<"p","w">>
SrcPwFold    == FlagFold \o <<"p","w">>
SrcD         == <<"d">>
SrcOpenGroup == <<"(","p","w">>
SrcOpenClass == <<"[","d">>
Sources      == {SrcPw, SrcPwFold, SrcD, SrcOpenGroup, SrcOpenClass}

\* regexp.Compile on the pattern texts of the model, which hold no closing
\* parenthesis or bracket other than that of the flag: a text with an opening
\* one fails to compile, any other text compiles to its literal, folded when
\* the text sets the flag and as written when it does not
Compile(p) ==
    LET flagged == HasPrefix(p, FlagFold)
        rest    == IF flagged THEN SubSeq(p, Len(FlagFold) + 1, Len(p)) ELSE p
    IN  IF \E i \in 1..Len(rest) : rest[i] \in {"(", "["}
        THEN [ok |-> FALSE, re |-> [fold |-> FALSE, lit |-> <<>>]]
        ELSE [ok |-> TRUE, re |-> [fold |-> flagged, lit |-> rest]]

RECURSIVE WithMaskPatternsStopAtInvalid(_)
\* the slip of leaving the loop at the first text that fails to compile
WithMaskPatternsStopAtInvalid(ps) ==
    IF ps = <<>> \/ ~Compile(Head(ps)).ok THEN <<>>
    ELSE <<Compile(Head(ps)).re>> \o WithMaskPatternsStopAtInvalid(Tail(ps))

RECURSIVE CompileAll(_)
\* the loop of WithMaskPatterns: the texts that compile, in their order
CompileAll(ps) ==
    IF ps = <<>> THEN <<>>
    ELSE (IF Compile(Head(ps)).ok THEN <<Compile(Head(ps)).re>> ELSE <<>>)
         \o CompileAll(Tail(ps))

\* c.MaskPatterns after the option WithMaskPatterns(ps...) is applied
WithMaskPatterns(ps) == CompileAll(ps)

SourceLists == UNION {[1..n -> Sources] : n \in 0..MaxSources}

SetupDocs == MapsOver(Leaves, MaxWidth)

SetupInit ==
    /\ sources \in SourceLists
    /\ setupData \in SetupDocs
    /\ maskPatterns = <<>>
    /\ setupMasked = NoDoc
    /\ spc = "start"

SetupIdle ==
    /\ sources = <<>>
    /\ setupData = NoDoc
    /\ maskPatterns = <<>>
    /\ setupMasked = NoDoc
    /\ spc = "idle"

\* GinMiddleware applies the option to its configuration
Configure ==
    /\ spc = "start"
    /\ maskPatterns' = WithMaskPatterns(sources)
    /\ spc' = "configured"
    /\ UNCHANGED <<sources, setupData, setupMasked>>

\* a body is redacted under the configured patterns
Redact ==
    /\ spc = "configured"
    /\ setupMasked' = maskJSONFields(setupData, maskPatterns)
    /\ spc' = "masked"
    /\ UNCHANGED <<sources, setupData, maskPatterns>>

---------------------------------------------------------------------------
(* gin.go: exchanges in flight through one GinMiddleware instance          *)

MaxConcurrentWrites == 1   \* Write calls the handler of each exchange makes

\* the goroutines that run the handler function GinMiddleware returned
Exchanges == {1, 2}

\* the slip of allocating the capture buffer once, outside the closure
BufferShared(i) == 1

\* the exchange whose capture buffer the writes of exchange i go to: blw is
\* allocated inside the closure, at each call
BufferOwner(i) == i

\* cfg and skipPathMap are built once; requestID, requestBody and blw are
\* locals of each call, kept here in the context of the exchange with its
\* position, its request stream and the bytes sent to its client
XInit ==
    /\ xcfg \in {c \in Configs : /\ c.MaxBodyLogSize \in {4, 4096}
                                 /\ c.LogRequestBody /\ c.LogResponseBody
                                 /\ c.SkipPaths = {"/health"}
                                 /\ c.MaskPatterns = <<PatPwFold>>}
    /\ xreq \in [Exchanges -> {r \in Requests : /\ r.method = "POST"
                                                /\ r.path \in {"/health", "/api/users"}
                                                /\ ~r.stream.nil
                                                /\ r.stream.failAfter = -1}]
    /\ xctx = [i \in Exchanges |->
                 NewContext @@ [pc |-> "start", out |-> <<>>, stream |-> xreq[i].stream]]
    /\ xsink = <<>>

XIdle ==
    /\ xcfg = [RequestIDHeader |-> "X-Request-ID", MaxBodyLogSize |-> 4096,
               LogRequestBody |-> TRUE, LogResponseBody |-> TRUE, SkipPaths |-> {},
               MaskPatterns |-> <<>>]
    /\ xreq = <<>>
    /\ xctx = <<>>
    /\ xsink = <<>>

\* exchange i runs the middleware up to c.Next()
XEnter(i) ==
    /\ xctx[i].pc = "start"
    /\ IF Skipped(xcfg, xreq[i].path)
       THEN /\ xctx' = [xctx EXCEPT ![i].skipped = TRUE, ![i].pc = "handler"]
            /\ UNCHANGED xsink
       ELSE \E fresh \in FreshIDs :
              LET requestID == resolveRequestID(xreq[i].idHeader, fresh)
                  capture   == capturesBody(xcfg, xreq[i].method, xctx[i].stream)
                  rd        == ReadAll(xctx[i].stream)
                  requestBody ==
                      IF capture /\ ~rd.failed /\ Len(rd.bytes) > 0
                      THEN Snapshot(rd.bytes, xcfg.MaxBodyLogSize) ELSE <<>>
              IN  /\ xctx' = [xctx EXCEPT
                                ![i].request_id = requestID, ![i].header = requestID,
                                ![i].requestID = requestID,
                                ![i].bodyReads = IF capture THEN 1 ELSE 0,
                                ![i].stream = IF ~capture THEN @
                                              ELSE IF rd.failed THEN rd.left
                                              ELSE NopCloser(rd.bytes),
                                ![i].requestBody = requestBody,
                                ![i].wrapped = TRUE, ![i].pc = "handler"]
                  /\ xsink' = Emit(xsink, [exchange |-> i, msg |-> "Request received",
                                           severity |-> "info", request_id |-> requestID,
                                           method |-> xreq[i].method,
                                           path |-> xreq[i].path])
    /\ UNCHANGED <<xcfg, xreq>>

\* the handler of exchange i writes a chunk through c.Writer
XWrite(i) ==
    /\ xctx[i].pc = "handler"
    /\ xctx[i].writes < MaxConcurrentWrites
    /\ \E b \in Chunks :
         LET o == BufferOwner(i)
             w == Write([xctx[i] EXCEPT !.captured = xctx[o].captured], xctx[i].out, b)
         IN  xctx' = [xctx EXCEPT ![o].captured = w.captured, ![i].out = w.out,
                                  ![i].writes = @ + 1, ![i].chunks = Append(@, b)]
    /\ UNCHANGED <<xcfg, xreq, xsink>>

\* the handler of exchange i returns with a final status
XReturn(i) ==
    /\ xctx[i].pc = "handler"
    /\ \E st \in {200, 500} :
         xctx' = [xctx EXCEPT ![i].status = st,
                              ![i].pc = IF xctx[i].skipped THEN "done" ELSE "returned"]
    /\ UNCHANGED <<xcfg, xreq, xsink>>

\* exchange i runs the middleware after c.Next()
XComplete(i) ==
    /\ xctx[i].pc = "returned"
    /\ LET c          == xctx[i]
           withResp   == IncludeBodies(c.status) /\ xcfg.LogResponseBody
           withReq    == IncludeBodies(c.status) /\ xcfg.LogRequestBody /\ c.requestBody # <<>>
           base       == [exchange |-> i, msg |-> "Request completed",
                          severity |-> Severity(c.status), request_id |-> c.requestID,
                          method |-> xreq[i].method, path |-> xreq[i].path,
                          status_code |-> c.status]
           f1 == IF withResp
                 THEN [response_body |->
                          maskBody(Snapshot(c.captured, xcfg.MaxBodyLogSize), xcfg.MaskPatterns)]
                 ELSE <<>>
           f2 == IF withReq
                 THEN [request_body |-> maskBody(c.requestBody, xcfg.MaskPatterns)]
                 ELSE <<>>
       IN  xsink' = Emit(xsink, base @@ f1 @@ f2)
    /\ xctx' = [xctx EXCEPT ![i].pc = "done"]
    /\ UNCHANGED <<xcfg, xreq>>

---------------------------------------------------------------------------
(* The specifications                                                      *)

\* the Gin middleware handling one exchange
Init == GinInit /\ MaskIdle /\ BodyIdle /\ SqlIdle /\ TraceIdle /\ SetupIdle /\ XIdle

Next ==
    \/ EnterSkipped /\ UNCHANGED <<maskVars, bodyVars, sqlVars, traceVars, setupVars, xVars>>
    \/ Enter /\ UNCHANGED <<maskVars, bodyVars, sqlVars, traceVars, setupVars, xVars>>
    \/ HandlerReadBody /\ UNCHANGED <<maskVars, bodyVars, sqlVars, traceVars, setupVars, xVars>>
    \/ HandlerWrite /\ UNCHANGED <<maskVars, bodyVars, sqlVars, traceVars, setupVars, xVars>>
    \/ HandlerReturn /\ UNCHANGED <<maskVars, bodyVars, sqlVars, traceVars, setupVars, xVars>>
    \/ HandlerPanic /\ UNCHANGED <<maskVars, bodyVars, sqlVars, traceVars, setupVars, xVars>>
    \/ Complete /\ UNCHANGED <<maskVars, bodyVars, sqlVars, traceVars, setupVars, xVars>>

Spec == Init /\ [][Next]_vars

\* maskJSONFields applied to a document and to its own result
InitMask == MaskInit /\ BodyIdle /\ SqlIdle /\ TraceIdle /\ GinIdle /\ SetupIdle /\ XIdle

NextMask ==
    \/ MaskOnce /\ UNCHANGED <<bodyVars, sqlVars, traceVars, ginVars, setupVars, xVars>>
    \/ MaskAgain /\ UNCHANGED <<bodyVars, sqlVars, traceVars, ginVars, setupVars, xVars>>

SpecMask == InitMask /\ [][NextMask]_vars

\* maskBody applied to a raw body text
InitBody == BodyInit /\ MaskIdle /\ SqlIdle /\ TraceIdle /\ GinIdle /\ SetupIdle /\ XIdle

NextBody == MaskBody /\ UNCHANGED <<maskVars, sqlVars, traceVars, ginVars, setupVars, xVars>>

SpecBody == InitBody /\ [][NextBody]_vars

\* parseSQL applied to a statement text
InitSQL == SqlInit /\ MaskIdle /\ BodyIdle /\ TraceIdle /\ GinIdle /\ SetupIdle /\ XIdle

NextSQL == ParseSQL /\ UNCHANGED <<maskVars, bodyVars, traceVars, ginVars, setupVars, xVars>>

SpecSQL == InitSQL /\ [][NextSQL]_vars

\* one call of GormLogger.Trace
InitTrace == TraceInit /\ MaskIdle /\ BodyIdle /\ SqlIdle /\ GinIdle /\ SetupIdle /\ XIdle

NextTrace == Trace /\ UNCHANGED <<maskVars, bodyVars, sqlVars, ginVars, setupVars, xVars>>

SpecTrace == InitTrace /\ [][NextTrace]_vars

\* WithMaskPatterns applied, and a document redacted under its result
InitSetup == SetupInit /\ MaskIdle /\ BodyIdle /\ SqlIdle /\ TraceIdle /\ GinIdle /\ XIdle

NextSetup ==
    \/ Configure /\ UNCHANGED <<maskVars, bodyVars, sqlVars, traceVars, ginVars, xVars>>
    \/ Redact /\ UNCHANGED <<maskVars, bodyVars, sqlVars, traceVars, ginVars, xVars>>

SpecSetup == InitSetup /\ [][NextSetup]_vars

\* two exchanges in flight through one middleware instance, in any interleaving
InitX == XInit /\ MaskIdle /\ BodyIdle /\ SqlIdle /\ TraceIdle /\ GinIdle /\ SetupIdle

NextX ==
    \/ (\E i \in Exchanges : XEnter(i))
          /\ UNCHANGED <<maskVars, bodyVars, sqlVars, traceVars, ginVars, setupVars>>
    \/ (\E i \in Exchanges : XWrite(i))
          /\ UNCHANGED <<maskVars, bodyVars, sqlVars, traceVars, ginVars, setupVars>>
    \/ (\E i \in Exchanges : XReturn(i))
          /\ UNCHANGED <<maskVars, bodyVars, sqlVars, traceVars, ginVars, setupVars>>
    \/ (\E i \in Exchanges : XComplete(i))
          /\ UNCHANGED <<maskVars, bodyVars, sqlVars, traceVars, ginVars, setupVars>>

SpecX == InitX /\ [][NextX]_vars

---------------------------------------------------------------------------
(* Properties of maskJSONFields and maskBody                               *)

\* C1: redaction is idempotent: masking the masked document again with the
\* same rule set gives the masked document.
C1_Idempotent == mpc = "remasked" => remasked = masked

\* a nested document in which a field below the top level was masked
C1_Witness ==
    /\ mpc = "remasked"
    /\ data.t = "map"
    /\ \E k \in DOMAIN data.m :
          /\ ~shouldMask(k, patterns)
          /\ data.m[k].t \in {"map", "seq"}
          /\ masked.m[k] # data.m[k]
    /\ remasked = masked

RECURSIVE SameShape(_, _, _)
\* r has the shape of d: a map has the keys of the map it comes from, a
\* sequence the length of the sequence it comes from, and r differs from d
\* only in the values under keys that match a rule of ps
SameShape(d, r, ps) ==
    CASE d.t = "map" ->
            /\ r.t = "map"
            /\ DOMAIN r.m = DOMAIN d.m
            /\ \A k \in DOMAIN d.m : shouldMask(k, ps) \/ SameShape(d.m[k], r.m[k], ps)
      [] d.t = "seq" ->
            /\ r.t = "seq"
            /\ Len(r.a) = Len(d.a)
            /\ \A i \in 1..Len(d.a) : SameShape(d.a[i], r.a[i], ps)
      [] OTHER -> r = d

\* C2: redaction preserves the shape of the document: same key sets, same
\* sequence lengths, and only values under matched keys differ from the input.
C2_ShapePreserved == mpc \in {"masked", "remasked"} => SameShape(data, masked, patterns)

\* a map with a masked field beside a field that is kept
C2_Witness ==
    /\ mpc = "masked"
    /\ data.t = "map"
    /\ \E k1, k2 \in DOMAIN data.m :
          /\ shouldMask(k1, patterns) /\ masked.m[k1] # data.m[k1]
          /\ ~shouldMask(k2, patterns) /\ masked.m[k2] = data.m[k2]

\* C3: a body text that is no valid JSON document is returned by maskBody
\* exactly as it was given, for every rule set.
C3_InvalidBodyVerbatim == (bpc = "done" /\ ~Unmarshal(body).ok) => maskedBody = body

\* a cut JSON object with a sensitive field, and a rule that matches the field
C3_Witness ==
    /\ bpc = "done"
    /\ body = <<"{","\"","p","w","\"",":","1">>
    /\ bodyPatterns = <<PatPw>>
    /\ ~Unmarshal(body).ok
    /\ maskedBody = body

---------------------------------------------------------------------------
(* Properties of parseSQL                                                  *)

\* kw is a prefix of s in any letter case
FoldPrefix(s, kw) ==
    Len(s) >= Len(kw) /\ \A i \in 1..Len(kw) : ToUpperChar(s[i]) = kw[i]

\* the operation a case-insensitive prefix match gives, the keywords tried in
\* the order SELECT, INSERT, UPDATE, DELETE
PrefixOperation(s) ==
    IF FoldPrefix(s, KwSelect) THEN KwSelect
    ELSE IF FoldPrefix(s, KwInsert) THEN KwInsert
    ELSE IF FoldPrefix(s, KwUpdate) THEN KwUpdate
    ELSE IF FoldPrefix(s, KwDelete) THEN KwDelete
    ELSE OpOther

Operations == {KwSelect, KwInsert, KwUpdate, KwDelete, OpOther}

\* s without the white space before its first other character
WithoutLeadingSpace(s) ==
    LET at == {i \in 1..Len(s) : ~IsSpace(s[i])}
    IN  IF at = {} THEN <<>>
        ELSE SubSeq(s, CHOOSE i \in at : \A j \in at : i <= j, Len(s))

\* C4 as stated: the operation is the case-insensitive prefix match on the
\* statement, SELECT, INSERT, UPDATE, DELETE in that order, else OTHER, and
\* always one of the five.
C4_PrefixOfStatement ==
    qpc = "done" => (operation = PrefixOperation(sql) /\ operation \in Operations)

\* C4 amended: the prefix match is made on the statement without its leading
\* white space.
C4_PrefixAfterTrim ==
    qpc = "done" =>
        (operation = PrefixOperation(WithoutLeadingSpace(sql)) /\ operation \in Operations)

\* a statement in lower case, with white space before it, classified SELECT
C4_Witness ==
    /\ qpc = "done"
    /\ HasPrefix(sql, <<" ","s","e","l","e","c","t">>)
    /\ operation = KwSelect

\* the keyword the table is looked for after, per operation
TableKeyword(op) ==
    CASE op = KwSelect -> KwFrom
      [] op = KwInsert -> KwInto
      [] op = KwUpdate -> KwUpdate
      [] op = KwDelete -> KwFrom

\* kw stands at index i of s as a word of its own, in any letter case
KeywordAt(s, kw, i) ==
    /\ i + Len(kw) - 1 <= Len(s)
    /\ \A j \in 1..Len(kw) : ToUpperChar(s[i + j - 1]) = kw[j]
    /\ (i = 1 \/ ~IsWord(s[i - 1]))
    /\ (i + Len(kw) > Len(s) \/ ~IsWord(s[i + Len(kw)]))

\* the indexes at which an identifier token starts immediately after the
\* keyword at i: separated from it by white space only, possibly behind one
\* wrapping character
IdentifierStarts(s, kw, i) ==
    {b \in (i + Len(kw) + 1)..Len(s) :
        /\ IsWord(s[b])
        /\ \E q \in {0, 1} :
              /\ b - 1 - q >= i + Len(kw)
              /\ q = 1 => IsQuote(s[b - 1])
              /\ \A j \in (i + Len(kw))..(b - 1 - q) : IsSpace(s[j])}

\* the identifier tokens that immediately follow the keyword at i, each the
\* whole run of word characters from its start
IdentifiersAfter(s, kw, i) ==
    {SubSeq(s, b, CHOOSE c \in b..Len(s) :
                     /\ \A j \in b..c : IsWord(s[j])
                     /\ (c = Len(s) \/ ~IsWord(s[c + 1])))
        : b \in IdentifierStarts(s, kw, i)}

\* the indexes at which kw stands immediately followed by an identifier
KeywordSites(s, kw) ==
    {i \in 1..Len(s) : KeywordAt(s, kw, i) /\ IdentifiersAfter(s, kw, i) # {}}

FirstSite(s, kw) == CHOOSE i \in KeywordSites(s, kw) : \A j \in KeywordSites(s, kw) : i <= j

\* C5: the table is the identifier immediately following the first FROM
\* (SELECT, DELETE), INTO (INSERT) or UPDATE (UPDATE) that has one, without
\* the double quote or backtick that wraps it; the two statements the
\* specification quotes give (SELECT, users) and (INSERT, orders).
C5_TableAfterKeyword ==
    qpc = "done" =>
        /\ (operation # OpOther /\ KeywordSites(sql, TableKeyword(operation)) # {}) =>
              /\ table \in IdentifiersAfter(sql, TableKeyword(operation),
                                            FirstSite(sql, TableKeyword(operation)))
              /\ \A i \in 1..Len(table) : ~IsQuote(table[i])
        /\ sql = StmtSelectUsers => (operation = KwSelect /\ table = <<"u","s","e","r","s">>)
        /\ sql = StmtInsertOrders => (operation = KwInsert /\ table = <<"o","r","d","e","r","s">>)

\* INSERT INTO with the table in double quotes
C5_Witness ==
    /\ qpc = "done"
    /\ sql = StmtInsertOrders
    /\ operation = KwInsert
    /\ table = <<"o","r","d","e","r","s">>

\* the first index at which kw stands as a word
FirstKeyword(s, kw) ==
    LET at == {i \in 1..Len(s) : KeywordAt(s, kw, i)}
    IN  IF at = {} THEN 0 ELSE CHOOSE i \in at : \A j \in at : i <= j

\* C6 as stated: the table is empty for an OTHER operation, for the malformed
\* statement the specification quotes, and whenever the keyword of the
\* operation is not immediately followed by an identifier, as a FROM followed
\* by a parenthesised subquery is not.
C6_EmptyUnlessIdentifierFollows ==
    qpc = "done" =>
        /\ operation = OpOther => table = <<>>
        /\ sql = StmtGarbage => (operation = OpOther /\ table = <<>>)
        /\ operation # OpOther =>
              LET kw == TableKeyword(operation)
                  i  == FirstKeyword(sql, kw)
              IN  (i = 0 \/ IdentifiersAfter(sql, kw, i) = {}) => table = <<>>

\* C6 amended: the table is empty for an OTHER operation, for the malformed
\* statement, and whenever no occurrence of the keyword in the statement is
\* immediately followed by an identifier; a FROM followed by a parenthesised
\* subquery gives the identifier after the next FROM that has one.
C6_EmptyWhenNoSite ==
    qpc = "done" =>
        /\ table \in Seq(Range(LowerLetters) \cup Range(UpperLetters) \cup Range(Digits) \cup {"_"})
        /\ operation = OpOther => table = <<>>
        /\ sql = StmtGarbage => (operation = OpOther /\ table = <<>>)
        /\ (operation # OpOther /\ KeywordSites(sql, TableKeyword(operation)) = {}) =>
              table = <<>>
        /\ sql = StmtSubquery => table = <<"u","s","e","r","s">>

\* a SELECT whose only FROM is followed by a parenthesis
C6_Witness ==
    /\ qpc = "done"
    /\ sql = <<"S","E","L","E","C","T"," ","F","R","O","M"," ","(">>
    /\ operation = KwSelect
    /\ table = <<>>

---------------------------------------------------------------------------
(* Properties of GormLogger.Trace                                          *)

Severities == [i \in 1..Len(events) |-> events[i].severity]
Failed     == err # "nil"
Ignorable  == ignoreRecordNotFound /\ IsRecordNotFound(err)
Slow       == elapsed > slowThreshold

\* C7 as stated, an event of a severity being emitted when the verbosity
\* permits that severity: an error that is present and not ignorable gives an
\* error event; otherwise a slow call gives a warn event; otherwise the call
\* gives an info event; otherwise nothing; never more than one event.
C7_FirstMatch ==
    tpc = "done" =>
        /\ Len(events) <= 1
        /\ IF Failed /\ ~Ignorable
           THEN logLevel >= Error => Severities = <<"error">>
           ELSE IF Slow /\ logLevel >= Warn THEN Severities = <<"warn">>
           ELSE IF logLevel >= Info THEN Severities = <<"info">>
           ELSE Severities = <<>>

\* C7 amended: the slow and info cases are reached only by a call without an
\* error; a call with an ignorable error emits nothing, and a logger at Silent
\* emits nothing.
C7_FirstMatchNoError ==
    tpc = "done" =>
        /\ Len(events) <= 1
        /\ (Failed /\ ~Ignorable /\ logLevel >= Error) => Severities = <<"error">>
        /\ (Failed /\ Ignorable) => Severities = <<>>
        /\ (~Failed /\ Slow /\ logLevel >= Warn) => Severities = <<"warn">>
        /\ (~Failed /\ ~(Slow /\ logLevel >= Warn) /\ logLevel >= Info) => Severities = <<"info">>
        /\ (~Failed /\ ~(Slow /\ logLevel >= Warn) /\ logLevel < Info) => Severities = <<>>
        /\ logLevel <= Silent => Severities = <<>>

\* a slow call that failed, at a verbosity that permits warn: one error event
C7_Witness ==
    /\ tpc = "done"
    /\ Failed /\ ~Ignorable /\ Slow /\ logLevel >= Warn
    /\ Severities = <<"error">>
    /\ events[1].slow_query

\* C8: a record-not-found error is suppressed entirely when
\* IgnoreRecordNotFound is set, whatever the elapsed time and the verbosity;
\* when it is not set the same error is emitted at error severity by every
\* logger that emits errors (every level above Silent).
C8_IgnorableSuppressed ==
    (tpc = "done" /\ IsRecordNotFound(err)) =>
        /\ ignoreRecordNotFound => events = <<>>
        /\ (~ignoreRecordNotFound /\ logLevel >= Error) =>
              (Severities = <<"error">> /\ events[1].error = err)

\* a slow call with an ignorable error at Info verbosity: nothing is emitted
C8_Witness ==
    /\ tpc = "done"
    /\ Ignorable /\ Slow /\ logLevel = Info
    /\ events = <<>>

\* C9: for a statement without error the comparison with the threshold is
\* strict: elapsed = threshold is not slow and goes to info, elapsed =
\* threshold + 1 is slow and goes to warn, each emitted when the verbosity
\* permits that severity and nothing being emitted otherwise.
C9_StrictThreshold ==
    (tpc = "done" /\ ~Failed) =>
        /\ elapsed = slowThreshold =>
              /\ Severities = IF logLevel >= Info THEN <<"info">> ELSE <<>>
              /\ \A i \in 1..Len(events) : ~events[i].slow_query
        /\ elapsed = slowThreshold + 1 =>
              /\ Severities = IF logLevel >= Warn THEN <<"warn">> ELSE <<>>
              /\ \A i \in 1..Len(events) : events[i].slow_query

\* a call that took exactly the threshold, at Info verbosity
C9_Witness ==
    /\ tpc = "done"
    /\ ~Failed /\ elapsed = slowThreshold /\ slowThreshold > 0 /\ logLevel = Info
    /\ Severities = <<"info">>

---------------------------------------------------------------------------
(* Properties of GinMiddleware                                             *)

\* C10: a request on a configured skip path is transparent: the handler is
\* invoked exactly once, no request id is stored or sent, the middleware does
\* not read the body nor wrap the writer, and no event is emitted.
C10_SkipTransparent ==
    req.path \in cfg.SkipPaths =>
        /\ sink = <<>>
        /\ ctx.request_id = NoID
        /\ ctx.header = NoID
        /\ ctx.bodyReads = 0
        /\ ~ctx.wrapped
        /\ ctx.captured = <<>>
        /\ handlerSaw \in {NoText, ReadAll(req.stream).bytes}
        /\ handlerSaw = NoText => stream = req.stream
        /\ handlerCalls = (IF gpc = "start" THEN 0 ELSE 1)
        /\ gpc # "panicked"

\* a POST with a body on the skip path, handled and answered
C10_Witness ==
    /\ gpc = "done"
    /\ req.path \in cfg.SkipPaths
    /\ req.method = "POST"
    /\ cfg.LogRequestBody
    /\ handlerSaw = BodyObject
    /\ clientOut # <<>>
    /\ handlerCalls = 1


\* the exchange is past the entry of the middleware on a path not skipped
Entered == gpc \in {"handler", "returned", "done", "panicked"} /\ ~Skipped(cfg, req.path)

\* the exchange went on to the handler on a path not skipped
Dispatched == gpc \in {"handler", "returned", "done"} /\ ~Skipped(cfg, req.path)

\* C11: a non-empty inbound id header is used as the request id, an absent
\* or empty one gives a generated non-empty id, and the id in the exchange
\* state, in the response header and in every emitted event is that one id.
C11_OneRequestID ==
    Entered =>
        /\ req.idHeader # "" => ctx.requestID = req.idHeader
        /\ req.idHeader = "" => (ctx.requestID \in FreshIDs /\ ctx.requestID # "")
        /\ ctx.request_id = ctx.requestID
        /\ ctx.header = ctx.requestID
        /\ \A i \in 1..Len(sink) : sink[i].request_id = ctx.requestID

\* a finished exchange that came with an id: both events carry it
C11_Witness ==
    /\ gpc = "done"
    /\ req.idHeader = "req-1"
    /\ ctx.request_id = "req-1" /\ ctx.header = "req-1"
    /\ Len(sink) = 2
    /\ sink[1].request_id = "req-1" /\ sink[2].request_id = "req-1"

\* the middleware reads the request body of this exchange for capture
Captures == cfg.LogRequestBody /\ req.method # "GET" /\ ~req.stream.nil

\* C12: when the middleware has read the request body for capture, the
\* handler finds the whole original body on the request stream, whatever the
\* body length and the maximum capture length.
C12_BodyRestored ==
    (Entered /\ Captures /\ ~ReadAll(req.stream).failed) =>
        /\ ctx.bodyReads = 1
        /\ IF handlerSaw = NoText
           THEN ~stream.nil /\ stream.unread = req.stream.unread /\ stream.failAfter = -1
           ELSE handlerSaw = req.stream.unread

\* a body longer than the maximum: the snapshot is cut, the handler reads all
C12_Witness ==
    /\ gpc = "done"
    /\ Captures
    /\ cfg.MaxBodyLogSize = 4
    /\ req.stream.unread = BodyObject
    /\ ctx.requestBody # BodyObject
    /\ handlerSaw = BodyObject

\* t is the first max bytes of b followed by the truncation marker
ExactCut(t, b, max) ==
    /\ Len(t) = max + Len(TruncationMarker)
    /\ \A i \in 1..max : t[i] = b[i]
    /\ \A j \in 1..Len(TruncationMarker) : t[max + j] = TruncationMarker[j]

\* t is the snapshot the claim describes for the body b
ExactSnapshot(t, b, max) == IF Len(b) > max THEN ExactCut(t, b, max) ELSE t = b

\* C13: for a maximum that is a length, the request snapshot taken at
\* capture and the response snapshot taken at completion are the first max
\* bytes and the marker for a longer body, and the body itself otherwise; a
\* cut snapshot reaches the completed event as it is.
C13_ExactTruncation ==
    (Dispatched /\ cfg.MaxBodyLogSize >= 0) =>
        /\ (Captures /\ ~ReadAll(req.stream).failed) =>
              ExactSnapshot(ctx.requestBody, req.stream.unread, cfg.MaxBodyLogSize)
        /\ (gpc = "done" /\ "request_body" \in DOMAIN sink[2]
                /\ Len(req.stream.unread) > cfg.MaxBodyLogSize) =>
              ExactCut(sink[2].request_body, req.stream.unread, cfg.MaxBodyLogSize)
        /\ (gpc = "done" /\ "response_body" \in DOMAIN sink[2]) =>
              IF Len(ctx.captured) > cfg.MaxBodyLogSize
              THEN ExactCut(sink[2].response_body, ctx.captured, cfg.MaxBodyLogSize)
              ELSE sink[2].response_body = maskBody(ctx.captured, cfg.MaskPatterns)

\* an error response whose request and response are both longer than 4 bytes
C13_Witness ==
    /\ gpc = "done"
    /\ cfg.MaxBodyLogSize = 4
    /\ ctx.status = 500
    /\ Len(ctx.captured) > 4
    /\ "request_body" \in DOMAIN sink[2]
    /\ "response_body" \in DOMAIN sink[2]
    /\ sink[2].request_body = <<"{","\"","p","w">> \o TruncationMarker
    /\ sink[2].response_body = SubSeq(ctx.captured, 1, 4) \o TruncationMarker

BodyFields == {"request_body", "response_body"}

\* C15: the received event carries no body; a completed event carries a
\* request or response body only at warn or error severity, with a status of
\* 400 or more, and never at info severity.
C15_BodiesOnDegraded ==
    \A i \in 1..Len(sink) :
        /\ sink[i].msg = "Request received" => DOMAIN sink[i] \cap BodyFields = {}
        /\ (sink[i].msg = "Request completed" /\ DOMAIN sink[i] \cap BodyFields # {}) =>
              (sink[i].severity \in {"warn", "error"} /\ sink[i].status_code >= 400)
        /\ (sink[i].msg = "Request completed" /\ sink[i].severity = "info") =>
              DOMAIN sink[i] \cap BodyFields = {}

\* a successful exchange with both bodies captured: the event has neither
C15_Witness ==
    /\ gpc = "done"
    /\ cfg.LogRequestBody /\ cfg.LogResponseBody
    /\ ctx.requestBody # <<>>
    /\ ctx.captured # <<>>
    /\ ctx.status = 200
    /\ Len(sink) = 2
    /\ sink[2].severity = "info"
    /\ DOMAIN sink[2] \cap BodyFields = {}

\* C16: the completed event is one event whose severity is error for a
\* status of 500 or more, warn for 400 to 499 and info for any other status.
C16_SeverityByStatus ==
    (gpc = "done" /\ ~Skipped(cfg, req.path)) =>
        /\ Cardinality({i \in 1..Len(sink) : sink[i].msg = "Request completed"}) = 1
        /\ sink[2].status_code = ctx.status
        /\ ctx.status >= 500 => sink[2].severity = "error"
        /\ (ctx.status >= 400 /\ ctx.status <= 499) => sink[2].severity = "warn"
        /\ ctx.status < 400 => sink[2].severity = "info"

\* a status on the boundary at 500
C16_Witness ==
    /\ gpc = "done"
    /\ ~Skipped(cfg, req.path)
    /\ ctx.status = 500
    /\ sink[2].severity = "error"

\* C17: through the wrapped writer, after any sequence of writes the client
\* has received the concatenation of the handler's writes and the capture
\* buffer holds the same bytes.
C17_WriterForwards ==
    ctx.wrapped =>
        /\ clientOut = Concat(ctx.chunks)
        /\ ctx.captured = clientOut

\* two writes through the wrapped writer
C17_Witness ==
    /\ gpc = "handler"
    /\ ctx.wrapped
    /\ Len(ctx.chunks) = 2
    /\ ctx.chunks[1] # ctx.chunks[2]
    /\ clientOut = ctx.chunks[1] \o ctx.chunks[2]
    /\ ctx.captured = clientOut


\* C20 as stated: when the read of the request body for capture fails, the
\* request snapshot is empty, the handler is invoked, the completed event is
\* emitted, and the handler finds on the request stream the bytes the
\* middleware consumed before the failure.
C20_ReadFailureRestored ==
    (Dispatched /\ Captures /\ ReadAll(req.stream).failed) =>
        /\ ctx.requestBody = <<>>
        /\ handlerCalls = 1
        /\ gpc = "done" => (Len(sink) = 2 /\ sink[2].msg = "Request completed")
        /\ handlerSaw = NoText => HasPrefix(stream.unread, ReadAll(req.stream).bytes)
        /\ handlerSaw # NoText => HasPrefix(handlerSaw, ReadAll(req.stream).bytes)


---------------------------------------------------------------------------
(* Properties of WithMaskPatterns                                          *)

\* the positions of the pattern texts that compile
ValidAt == {i \in 1..Len(sources) : Compile(sources[i]).ok}

\* C18: setup goes through whatever the pattern texts; every text that
\* compiles, at any position of the list, is among the configured patterns,
\* in the order given, and nothing else is; each of them is applied: a field
\* whose name one of them matches is masked, every other field is kept.
C18_InvalidDropped ==
    spc \in {"configured", "masked"} =>
        /\ Len(maskPatterns) = Cardinality(ValidAt)
        /\ \A i \in ValidAt :
              maskPatterns[Cardinality({k \in ValidAt : k <= i})] = Compile(sources[i]).re
        /\ spc = "masked" =>
              /\ DOMAIN setupMasked.m = DOMAIN setupData.m
              /\ \A key \in DOMAIN setupData.m :
                    IF \E i \in ValidAt : MatchString(Compile(sources[i]).re, key)
                    THEN setupMasked.m[key] = DefaultMaskValue
                    ELSE setupMasked.m[key] = setupData.m[key]

\* a valid pattern between two invalid ones masks the field it matches
C18_Witness ==
    /\ spc = "masked"
    /\ sources = <<SrcOpenGroup, SrcD, SrcOpenClass>>
    /\ maskPatterns = <<PatD>>
    /\ KeyId \in DOMAIN setupData.m
    /\ setupData.m[KeyId] = Num(1)
    /\ setupMasked.m[KeyId] = DefaultMaskValue

\* C19 as stated: for every configured pattern, a field whose name differs
\* only in letter case from a name the pattern matches has its value replaced
\* by the sentinel.
C19_CaseInsensitive ==
    spc = "masked" =>
        \A j \in 1..Len(maskPatterns) : \A name \in Keys : \A key \in DOMAIN setupData.m :
            (MatchString(maskPatterns[j], name) /\ ToUpper(key) = ToUpper(name)) =>
                setupMasked.m[key] = DefaultMaskValue


---------------------------------------------------------------------------
(* Further properties of maskJSONFields                                    *)

\* the field name matches some rule of ps, tested rule by rule
MatchesAnyRule(key, ps) ==
    \E i \in 1..Len(ps) :
        \E k \in 0..(Len(key) - Len(ps[i].lit)) :
            \A j \in 1..Len(ps[i].lit) :
                IF ps[i].fold THEN ToUpperChar(key[k + j]) = ToUpperChar(ps[i].lit[j])
                ELSE key[k + j] = ps[i].lit[j]

RECURSIVE Redacted(_, _, _)
\* r is d redacted under the non-empty rule set ps: in a map the value under
\* a matching key is the sentinel whatever it was, the value under any other
\* key is redacted in turn; a sequence is redacted element by element; a
\* scalar is kept
Redacted(d, r, ps) ==
    CASE d.t = "map" ->
            /\ r.t = "map"
            /\ DOMAIN r.m = DOMAIN d.m
            /\ \A k \in DOMAIN d.m :
                  IF MatchesAnyRule(k, ps)
                  THEN r.m[k] = Str(<<"*","*","*","*","*","*">>)
                  ELSE Redacted(d.m[k], r.m[k], ps)
      [] d.t = "seq" ->
            /\ r.t = "seq"
            /\ Len(r.a) = Len(d.a)
            /\ \A i \in 1..Len(d.a) : Redacted(d.a[i], r.a[i], ps)
      [] OTHER -> r = d

\* C21: under a non-empty rule set maskJSONFields replaces the value under
\* every matching key of a map by the sentinel, whatever its type, transforms
\* the value under every other key and every element of a sequence
\* recursively, and keeps scalars; under an empty rule set the document is
\* returned unchanged.
C21_RedactionContract ==
    mpc \in {"masked", "remasked"} =>
        IF patterns = <<>> THEN masked = data ELSE Redacted(data, masked, patterns)

\* a matching key that holds a map with a matching key of its own, under the
\* second rule of the rule set: the whole value is the sentinel
C21_Witness ==
    /\ mpc = "masked"
    /\ patterns = <<PatD, PatPwFold>>
    /\ data = Map([k \in {KeyPwUp} |-> Map([j \in {KeyPw} |-> Num(1)])])
    /\ masked = Map([k \in {KeyPwUp} |-> DefaultMaskValue])


---------------------------------------------------------------------------
(* Further properties of GinMiddleware and GormLogger.Trace                *)

\* piece occurs in text
Contains(text, piece) ==
    \E k \in 0..(Len(text) - Len(piece)) : SubSeq(text, k + 1, k + Len(piece)) = piece

\* text shows the value of a field of the JSON object b whose name matches a
\* rule of ps
ShowsMatchedValue(text, b, ps) ==
    LET u == Unmarshal(b)
    IN  /\ u.ok
        /\ u.v.t = "map"
        /\ \E key \in DOMAIN u.v.m :
              /\ MatchesAnyRule(key, ps)
              /\ Contains(text, Quote(key) \o <<":">> \o Marshal(u.v.m[key]))

\* C22 as stated: whatever the length of a JSON body relative to the maximum
\* capture length, the request_body and response_body of the completed event
\* show no value of a field whose name matches a configured rule.
C22_SnapshotsRedacted ==
    (gpc = "done" /\ ~Skipped(cfg, req.path)) =>
        /\ "request_body" \in DOMAIN sink[2] =>
              ~ShowsMatchedValue(sink[2].request_body, req.stream.unread, cfg.MaskPatterns)
        /\ "response_body" \in DOMAIN sink[2] =>
              ~ShowsMatchedValue(sink[2].response_body, ctx.captured, cfg.MaskPatterns)

\* t holds at most max bytes, followed by nothing or by the marker alone
WithinLimit(t, max) ==
    \/ Len(t) <= max
    \/ /\ Len(t) <= max + Len(TruncationMarker)
       /\ Len(t) >= Len(TruncationMarker)
       /\ SubSeq(t, Len(t) - Len(TruncationMarker) + 1, Len(t)) = TruncationMarker

\* C23 as stated: every request_body and response_body of a completed event
\* holds at most max bytes of body text, followed only by the marker when it
\* was cut, also after redaction.
C23_SnapshotsWithinLimit ==
    (gpc = "done" /\ ~Skipped(cfg, req.path) /\ cfg.MaxBodyLogSize >= 0) =>
        \A f \in DOMAIN sink[2] \cap BodyFields : WithinLimit(sink[2][f], cfg.MaxBodyLogSize)

\* C24 as stated: a Trace call that emits no event has not invoked the
\* accessor.
C24_AccessorOnlyWhenEmitting ==
    (tpc = "done" /\ events = <<>>) => fcCalls = 0

\* C25 as stated: after any sequence of handler writes the capture buffer
\* holds no more bytes than the maximum capture length.
C25_CaptureBounded ==
    (ctx.wrapped /\ cfg.MaxBodyLogSize >= 0) => Len(ctx.captured) <= cfg.MaxBodyLogSize

\* C26 as stated: for every value of the maximum capture length, negative
\* ones included, the middleware does not raise: the handler is invoked and,
\* once it has returned, the completed event is emitted.
C26_NeverRaises ==
    ~Skipped(cfg, req.path) =>
        /\ gpc # "panicked"
        /\ gpc # "start" => handlerCalls = 1
        /\ gpc = "done" => (Len(sink) = 2 /\ sink[2].msg = "Request completed")

\* the middleware has neither read the request stream nor taken a snapshot
NoCapture ==
    /\ ctx.bodyReads = 0
    /\ ctx.requestBody = <<>>
    /\ handlerSaw = NoText => stream = req.stream
    /\ \A i \in 1..Len(sink) : "request_body" \notin DOMAIN sink[i]

\* C27 as stated: for a conventionally bodiless method, GET or HEAD, the
\* middleware neither reads the request stream nor records a snapshot, nor
\* does it for any method when capture is disabled or there is no body.
C27_BodilessNotCaptured ==
    Entered =>
        ((req.method \in {"GET", "HEAD"} \/ ~cfg.LogRequestBody \/ req.stream.nil) => NoCapture)

\* C27 amended: GET is the only method left out; the body of any other
\* method, HEAD included, is read when capture is enabled and the request has
\* a body.
C27_GetNotCaptured ==
    Entered =>
        /\ (req.method = "GET" \/ ~cfg.LogRequestBody \/ req.stream.nil) => NoCapture
        /\ (req.method # "GET" /\ cfg.LogRequestBody /\ ~req.stream.nil) => ctx.bodyReads = 1

\* a GET with a body, capture enabled: the handler reads the body untouched
C27_Witness ==
    /\ gpc = "done"
    /\ ~Skipped(cfg, req.path)
    /\ req.method = "GET"
    /\ cfg.LogRequestBody
    /\ req.stream.unread = BodyObject
    /\ ctx.status = 500
    /\ NoCapture
    /\ handlerSaw = BodyObject

\* C28: when the handler has terminated abnormally on a path that is not
\* skipped, the received event is in the log and no completed event is; the
\* exchange takes no further step, so none is emitted later.
C28_NoCompletionAfterPanic ==
    (gpc = "unwound" /\ ~Skipped(cfg, req.path)) =>
        /\ Len(sink) = 1
        /\ sink[1].msg = "Request received"
        /\ ~ENABLED Complete

\* a handler that wrote part of a response and panicked
C28_Witness ==
    /\ gpc = "unwound"
    /\ ~Skipped(cfg, req.path)
    /\ ctx.writes = 1
    /\ clientOut # <<>>
    /\ Len(sink) = 1
    /\ sink[1].msg = "Request received"


---------------------------------------------------------------------------
(* Properties of exchanges in flight together                              *)

\* the events of exchange i in the order of their emission
EventsOf(log, i) == SelectSeq(log, LAMBDA e : e.exchange = i)

\* the events of exchange i without the mark of the exchange
PlainEventsOf(log, i) ==
    LET es == EventsOf(log, i)
    IN  [k \in 1..Len(es) |-> [f \in DOMAIN es[k] \ {"exchange"} |-> es[k][f]]]

\* what exchange i was given: its request, the id generated for it if any,
\* the writes and the status of its handler, and how far it has come
InputsOf(i) ==
    <<xreq[i], xctx[i].requestID, xctx[i].chunks, xctx[i].status, xctx[i].pc>>

\* every event of an exchange carries the id of that exchange, and two
\* exchanges that were given the same have the same state and the same events
XOwnInputsOnly ==
    /\ \A i \in DOMAIN xctx : \A k \in 1..Len(EventsOf(xsink, i)) :
          EventsOf(xsink, i)[k].request_id = xctx[i].requestID
    /\ \A i, j \in DOMAIN xctx :
          InputsOf(i) = InputsOf(j) =>
              (xctx[i] = xctx[j] /\ PlainEventsOf(xsink, i) = PlainEventsOf(xsink, j))

\* a step leaves the configuration and the requests as they are, and leaves
\* the state and the events of every exchange that does not take it
XNoInterference ==
    /\ xcfg' = xcfg
    /\ xreq' = xreq
    /\ \A i \in DOMAIN xctx :
          (xctx'[i].pc = xctx[i].pc /\ xctx'[i].writes = xctx[i].writes) =>
              (xctx'[i] = xctx[i] /\ EventsOf(xsink', i) = EventsOf(xsink, i))

\* C29: under every interleaving of the exchanges in flight, the request id,
\* the request snapshot, the accumulated response bytes and the events of an
\* exchange depend on its own request and handler only, no step of another
\* exchange changes them, and the shared configuration is never modified.
C29_ExchangesIsolated == [](XOwnInputsOnly) /\ [][XNoInterference]_vars

\* two exchanges interleaved, the second inside the first, with different
\* response bytes accumulated and both completed
C29_Witness ==
    /\ DOMAIN xctx = Exchanges
    /\ xctx[1].pc = "done" /\ xctx[2].pc = "done"
    /\ Len(xsink) = 4
    /\ xsink[1].exchange = 1 /\ xsink[2].exchange = 2
    /\ xsink[3].exchange = 2 /\ xsink[4].exchange = 1
    /\ xctx[1].captured # <<>> /\ xctx[2].captured # <<>>
    /\ xctx[1].captured # xctx[2].captured
    /\ xctx[1].requestBody # xctx[2].requestBody

====
